---------------------------- MODULE Spec2Model ----------------------------
(***************************************************************************)
(* A model of the protocol-buffer decoder of the OSM PBF parser:           *)
(* PB_read_varint, PB_read_tag, PB_read_value, PB_read_field,              *)
(* PB_read_message, PB_next_field, PB_get_field, PB_expand_packed_fields,  *)
(* PB_read_embedded_message, PB_inflate_embedded_message (protobuf.c),     *)
(* zigzag_decode and OSM_read_Map (osm.c).                                 *)
(*                                                                         *)
(* Representation of C values:                                             *)
(*   - a uint64_t / int64_t bit pattern is the set of its set bit          *)
(*     positions, a subset of 0..63 (TLC's integers are 32 bits wide);     *)
(*   - a size_t or int is the representative nearest zero of its residue   *)
(*     class, so (size_t)(-1) = SIZE_MAX is written -1 and compared as an  *)
(*     unsigned value by SizeLess;                                         *)
(*   - a FILE is a record [buf, pos, eof]: the bytes, the number of bytes  *)
(*     consumed, and the end-of-file indicator that feof() tests;          *)
(*   - the heap is a sequence of PB_Field nodes, a pointer is an index.    *)
(*                                                                         *)
(* A function's result is a record of its return value (ret), what it      *)
(* stored through its pointer parameters, and the stream afterwards (s).   *)
(* Where a function goes on after a call, the rest of it is an operator    *)
(* that takes the call's result.                                           *)
(***************************************************************************)
EXTENDS Integers, Sequences, FiniteSets, TLC

VARIABLES
    build,   \* what the build does on undefined behaviour
    junk,    \* the indeterminate value an uninitialized uint64_t local holds
    alloc,   \* what malloc(size) answers for the buffer of a LEN value
    in,      \* the input stream: [buf, pos, eof]
    heap,    \* the PB_Field nodes allocated so far
    msgp,    \* the caller's PB_Message variable (NoMsg until assigned)
    pc,      \* control location
    call,    \* the call in progress or last returned: [op, ...arguments]
    loc,     \* the locals of the function in progress
    ret,     \* the value returned by the call, once pc = "done"
    out      \* what the call stored through its pointer parameters

vars == <<build, junk, alloc, in, heap, msgp, pc, call, loc, ret, out>>

-----------------------------------------------------------------------------
(* Bounds of the model *)

\* the number of chunks an input stream is put together from
MaxChunks == 2
\* the largest byte budget len passed to PB_read_message
MaxLen == 5
\* the number of fields of a message handed to the lookups and the expansion
MaxFields == 3
\* the number of nodes the heap holds: the expansion allocates no more
MaxNodes == 12

\* the largest number of records in an input of OSM_read_Map
MaxFrames == 2

-----------------------------------------------------------------------------
(* protobuf.h: wire types and wildcards *)

VARINT_TYPE == 0
I64_TYPE == 1
LEN_TYPE == 2
I32_TYPE == 5
SENTINEL_TYPE == 8
ANY_TYPE == 9
ANY_FIELD == -1
FORWARD_DIR == "FORWARD_DIR"
BACKWARD_DIR == "BACKWARD_DIR"

\* the null pointer: no node has address 0
NULL == 0
\* the caller's PB_Message variable before any call has assigned it
NoMsg == NULL
\* the content of memory nothing has been stored to
Uninit == "uninitialized"
None == [op |-> "none"]

\* what an out-of-range shift or a signed overflow does in a build:
\* "wrap": the shift count is taken modulo 64 and signed arithmetic wraps;
\* "strict": an oversized shift yields 0 and a signed overflow traps
Builds == {"wrap", "strict"}

\* malloc(size) for the bytes of a LEN value, which the code does not test:
\* a buffer, or NULL, and then fread into NULL is undefined behaviour that
\* either faults or makes fread report that it read nothing
AllocOutcomes == {"buffer", "null, fread faults", "null, fread fails"}

\* sample contents of an uninitialized uint64_t
JunkValues == {{}, {0, 1, 2, 3}}

-----------------------------------------------------------------------------
(* 64-bit patterns as sets of bit positions *)

Bits64 == 0..63

\* the bits of a byte 0..255
ByteBits(b) == {i \in 0..7 : (b \div (2^i)) % 2 = 1}

RECURSIVE BitsToNat(_)
\* the number a pattern with bits below 31 stands for
BitsToNat(S) ==
    IF S = {} THEN 0
    ELSE LET i == CHOOSE j \in S : TRUE IN 2^i + BitsToNat(S \ {i})

\* the pattern of a natural number below 2^31
NatToBits(n) == {i \in 0..30 : (n \div (2^i)) % 2 = 1}

\* x << k on a uint64_t; k >= 64 is undefined behaviour
ShiftLeft(S, k) ==
    IF k < 64 THEN {i + k : i \in S} \cap Bits64
    ELSE IF build = "wrap" THEN {i + (k % 64) : i \in S} \cap Bits64
    ELSE {}

\* x >> k on a uint64_t (logical)
ShiftRight(S, k) == {i - k : i \in {j \in S : j >= k}}

\* (int32_t) x: the low 32 bits read as two's complement
ToInt32(S) ==
    IF 31 \in S THEN (BitsToNat(S \cap (0..30)) - 2^30) - 2^30
    ELSE BitsToNat(S \cap (0..30))

\* unsigned comparison a < b of two size_t values
SizeLess(a, b) ==
    IF a >= 0 /\ b >= 0 THEN a < b
    ELSE IF a < 0 /\ b < 0 THEN a < b
    ELSE b < 0

\* little-endian load of the bytes of a sequence into an integer
LoadLE(bytes) ==
    UNION {{8 * (k - 1) + i : i \in ByteBits(bytes[k])} : k \in 1..Len(bytes)}

-----------------------------------------------------------------------------
(* stdio: fread and feof on a stream [buf, pos, eof] *)

Avail(s) == Len(s.buf) - s.pos

\* the count fread(ptr, 1, n, s) transfers
Got(s, n) == IF n <= Avail(s) THEN n ELSE Avail(s)

\* fread(ptr, 1, n, s): the count read, the bytes, the stream afterwards
fread(s, n) ==
    [count |-> Got(s, n),
     bytes |-> SubSeq(s.buf, s.pos + 1, s.pos + Got(s, n)),
     s     |-> [s EXCEPT !.pos = s.pos + Got(s, n),
                         !.eof = s.eof \/ Got(s, n) < n]]

feof(s) == s.eof

-----------------------------------------------------------------------------
(* PB_read_varint *)

RECURSIVE VarintLoop(_, _, _, _)
\* the body of the do-while loop once fread has returned r
VarintByte(r, result, shift, bytes_read) ==
    IF r.count # 1
    THEN [ret |-> -1, value |-> {}, s |-> r.s]
    ELSE IF r.bytes[1] >= 128
    THEN VarintLoop(r.s,
                    result \cup ShiftLeft(ByteBits(r.bytes[1] % 128), shift),
                    shift + 7, bytes_read + 1)
    ELSE [ret   |-> bytes_read + 1,
          value |-> result \cup ShiftLeft(ByteBits(r.bytes[1] % 128), shift),
          s     |-> r.s]

\* the do-while loop: one byte per turn
VarintLoop(s, result, shift, bytes_read) ==
    VarintByte(fread(s, 1), result, shift, bytes_read)

\* ret is the count, or -1 with *value not written
PB_read_varint(s) == VarintLoop(s, {}, 0, 0)

-----------------------------------------------------------------------------
(* PB_read_tag *)

\* The rest of PB_read_tag once PB_read_varint has returned v and tag holds
\* the tag local.  The count is kept in a size_t, so the error value -1 is
\* SIZE_MAX and passes the test bytes_read < 1.
ReadTagSplit(v, tag) ==
    IF SizeLess(v.ret, 1)
    THEN [ret |-> -1, written |-> FALSE, type |-> Uninit, number |-> Uninit,
          s |-> v.s]
    ELSE [ret     |-> v.ret,
          written |-> TRUE,
          type    |-> BitsToNat(tag \cap (0..2)),
          number  |-> ToInt32(ShiftRight(tag, 3)),
          s       |-> v.s]

\* the tag local: what PB_read_varint stored, or what the frame held
TagLocal(v) == IF v.ret < 1 THEN junk ELSE v.value

ReadTagFrom(v) == ReadTagSplit(v, TagLocal(v))

\* written tells whether *typep and *fieldp were assigned
PB_read_tag(s) ==
    IF feof(s)
    THEN [ret |-> 0, written |-> FALSE, type |-> Uninit, number |-> Uninit,
          s |-> s]
    ELSE ReadTagFrom(PB_read_varint(s))

-----------------------------------------------------------------------------
(* PB_read_value *)

\* union value: the member written is named by the record's field
ValueI64(bits) == [i64 |-> bits]
ValueI32(bits) == [i32 |-> bits]
ValueBytes(buf, size) == [bytes |-> [buf |-> buf, size |-> size]]

\* case VARINT_TYPE, once PB_read_varint has returned v
ReadVarintValue(v) ==
    [ret |-> v.ret,
     value |-> IF v.ret < 1 THEN Uninit ELSE ValueI64(v.value),
     fault |-> FALSE,
     s |-> v.s]

\* cases I64_TYPE and I32_TYPE, once fread of n bytes has returned r
ReadFixed(r, n) ==
    IF r.count # n
    THEN [ret |-> -1, value |-> Uninit, fault |-> FALSE, s |-> r.s]
    ELSE [ret |-> r.count,
          value |-> IF n = 8 THEN ValueI64(LoadLE(r.bytes))
                    ELSE ValueI32(LoadLE(r.bytes)),
          fault |-> FALSE,
          s |-> r.s]

\* case LEN_TYPE, once fread of size bytes into the buffer has returned r
ReadLenBytes(r, bytes, size) ==
    IF r.count # size
    THEN [ret |-> -1, value |-> Uninit, fault |-> FALSE, s |-> r.s]
    ELSE [ret |-> bytes + size, value |-> ValueBytes(r.bytes, size),
          fault |-> FALSE, s |-> r.s]

\* case LEN_TYPE, fread of one byte or more into the NULL that malloc returned
ReadLenNull(s) ==
    [ret |-> -1, value |-> Uninit, fault |-> alloc = "null, fread faults",
     s |-> s]

\* case LEN_TYPE, once PB_read_varint has returned the size in v; a size
\* of 2^31 or more is more than any stream of the model holds
ReadLen(v) ==
    IF v.ret < 1
    THEN [ret |-> -1, value |-> Uninit, fault |-> FALSE, s |-> v.s]
    ELSE IF alloc # "buffer" /\ v.value # {}
    THEN ReadLenNull(v.s)
    ELSE IF \E i \in v.value : i > 30
    THEN [ret |-> -1, value |-> Uninit, fault |-> FALSE,
          s |-> fread(v.s, Avail(v.s) + 1).s]
    ELSE ReadLenBytes(fread(v.s, BitsToNat(v.value)), v.ret,
                      BitsToNat(v.value))

\* value is Uninit when *valuep holds no complete value; fault tells that
\* the call did not return
PB_read_value(s, type) ==
    IF feof(s)
    THEN [ret |-> 0, value |-> Uninit, fault |-> FALSE, s |-> s]
    ELSE CASE type = VARINT_TYPE -> ReadVarintValue(PB_read_varint(s))
           [] type = I64_TYPE -> ReadFixed(fread(s, 8), 8)
           [] type = LEN_TYPE -> ReadLen(PB_read_varint(s))
           [] type = I32_TYPE -> ReadFixed(fread(s, 4), 4)
           [] OTHER -> [ret |-> -1, value |-> Uninit, fault |-> FALSE, s |-> s]

-----------------------------------------------------------------------------
(* PB_read_field *)

\* the end of PB_read_field: tag result t, value result v
ReadFieldValue(t, v) ==
    IF v.ret < 1
    THEN [ret |-> -1, written |-> t.written, type |-> t.type,
          number |-> t.number, value |-> v.value, fault |-> v.fault,
          s |-> v.s]
    ELSE [ret |-> t.ret + v.ret, written |-> t.written, type |-> t.type,
          number |-> t.number, value |-> v.value, fault |-> FALSE, s |-> v.s]

\* PB_read_field once PB_read_tag has returned t
ReadFieldTag(t) ==
    IF t.ret < 1
    THEN [ret |-> -1, written |-> t.written, type |-> t.type,
          number |-> t.number, value |-> Uninit, fault |-> FALSE, s |-> t.s]
    ELSE ReadFieldValue(t, PB_read_value(t.s, t.type))

\* the PB_Field members the call wrote: type, number, value
PB_read_field(s) ==
    IF feof(s)
    THEN [ret |-> 0, written |-> FALSE, type |-> Uninit, number |-> Uninit,
          value |-> Uninit, fault |-> FALSE, s |-> s]
    ELSE ReadFieldTag(PB_read_tag(s))

-----------------------------------------------------------------------------
(* The input streams of the decoder *)

\* pieces of input: whole field encodings and malformed fragments
Chunks == <<
    <<8, 1>>,                         \* field 1, VARINT 1
    <<8, 172, 2>>,                    \* field 1, VARINT 300
    <<16, 0>>,                        \* field 2, VARINT 0
    <<10, 1, 5>>,                     \* field 1, LEN of one byte
    <<10, 0>>,                        \* field 1, LEN of no bytes
    <<21, 1, 0, 0, 0>>,               \* field 2, I32
    <<9, 1, 0, 0, 0, 0, 0, 0, 128>>,  \* field 1, I64
    <<11>>,                           \* tag of field 1 with wire type 3
    <<14, 0>>,                        \* tag of field 1 with wire type 6
    <<128>>,                          \* a continuation byte
    <<8>>,                            \* a VARINT tag without its value
    <<10, 3, 7>>                      \* LEN of three bytes, one present
>>

RECURSIVE Flatten(_)
Flatten(ss) == IF ss = <<>> THEN <<>> ELSE Head(ss) \o Flatten(Tail(ss))

\* the byte strings put together from at most n of the chunks cs
Joined(cs, n) ==
    {Flatten([k \in DOMAIN ix |-> cs[ix[k]]]) :
        ix \in UNION {[1..m -> 1..Len(cs)] : m \in 0..n}}

Streams == Joined(Chunks, MaxChunks)

\* varints of ten and eleven bytes
LongVarints == {
    <<255, 255, 255, 255, 255, 255, 255, 255, 255, 1>>,
    <<255, 255, 255, 255, 255, 255, 255, 255, 255, 127>>,
    <<128, 128, 128, 128, 128, 128, 128, 128, 128, 128, 1>>,
    <<136, 128, 128, 128, 128, 128, 128, 128, 128, 128, 2, 1>>
}

\* the inputs of the calls on single fields
FieldStreams == Streams \cup LongVarints

\* a stream as fopen or fmemopen returns it
Fresh(b) == [buf |-> b, pos |-> 0, eof |-> FALSE]

\* a stream on which an earlier read has met the end of the input
Exhausted(b) == [buf |-> b, pos |-> Len(b), eof |-> TRUE]

-----------------------------------------------------------------------------
(* The heap of PB_Field nodes *)

\* malloc(sizeof(PB_Field)): the address of the new node
NewNode(h) == Len(h) + 1

\* the node as malloc returns it
FreshField ==
    [type |-> Uninit, number |-> Uninit, value |-> Uninit,
     next |-> Uninit, prev |-> Uninit]

\* head->type = SENTINEL_TYPE; head->next = head; head->prev = head
SentinelAt(a) == [FreshField EXCEPT !.type = SENTINEL_TYPE, !.next = a, !.prev = a]

\* a faulty variant: the last assignment, head->prev = f, is left out
AppendFieldNoTail(h, head, f) ==
    [h EXCEPT ![f].next = head,
              ![f].prev = h[head].prev,
              ![h[head].prev].next = f]

\* the four assignments that link node f in before the sentinel head:
\* f->next = head; f->prev = head->prev; head->prev->next = f; head->prev = f
AppendField(h, head, f) ==
    [h EXCEPT ![f].next = head,
              ![f].prev = h[head].prev,
              ![h[head].prev].next = f,
              ![head].prev = f]

-----------------------------------------------------------------------------
(* Calls of the field-level decoders on the input stream *)

WireCodes == 0..7

\* the call op(...) on the stream returns r, having written the members w,
\* or faults and does not return
Returned(op, r, w, fault) ==
    /\ pc = "start"
    /\ call' = op
    /\ in' = r.s
    /\ ret' = IF fault THEN ret ELSE r.ret
    /\ out' = IF fault THEN out ELSE w
    /\ pc' = IF fault THEN "crashed" ELSE "done"
    /\ UNCHANGED <<build, junk, alloc, heap, msgp, loc>>

VarintOut(r) == [written |-> r.ret >= 1, value |-> r.value]
TagOut(r) == [written |-> r.written, type |-> r.type, number |-> r.number]
ValueOut(r) == [written |-> r.ret >= 1, value |-> r.value]
FieldOut(r) ==
    [written |-> r.written, type |-> r.type, number |-> r.number,
     value |-> r.value]

VarintReturned(r) ==
    Returned([op |-> "PB_read_varint", s0 |-> in], r, VarintOut(r), FALSE)
TagReturned(r) ==
    Returned([op |-> "PB_read_tag", s0 |-> in], r, TagOut(r), FALSE)
ValueReturned(type, r) ==
    Returned([op |-> "PB_read_value", s0 |-> in, type |-> type], r,
             ValueOut(r), r.fault)
FieldReturned(r) ==
    Returned([op |-> "PB_read_field", s0 |-> in], r, FieldOut(r), r.fault)

CallReadVarint == VarintReturned(PB_read_varint(in))

CallReadTag == TagReturned(PB_read_tag(in))

CallReadValue ==
    \E type \in WireCodes : ValueReturned(type, PB_read_value(in, type))

CallReadField == FieldReturned(PB_read_field(in))

-----------------------------------------------------------------------------
(* PB_read_message *)

\* return from PB_read_message with value r; the locals are kept for inspection
ReadMessageReturns(r, locals) ==
    /\ ret' = r
    /\ loc' = locals
    /\ pc' = "done"

\* entry: the feof test and the allocation of the sentinel
ReadMessageCall ==
    /\ pc = "start"
    /\ \E len \in 0..MaxLen :
         /\ call' = [op |-> "PB_read_message", s0 |-> in, len |-> len,
                     msgp0 |-> msgp]
         /\ \/ /\ feof(in)
               /\ ReadMessageReturns(0, [at |-> "feof"])
               /\ UNCHANGED heap
            \/ /\ ~feof(in)
               /\ ReadMessageReturns(-1, [at |-> "malloc head"])
               /\ UNCHANGED heap
            \/ /\ ~feof(in)
               /\ heap' = Append(heap, SentinelAt(NewNode(heap)))
               /\ loc' = [at |-> "loop", head |-> NewNode(heap),
                          bytes_read |-> 0, len |-> len, bytes |-> 0]
               /\ pc' = "rm_loop"
               /\ ret' = 0
    /\ out' = None
    /\ UNCHANGED <<build, junk, alloc, in, msgp>>

\* the node curr_field after PB_read_field has returned r
FieldNode(r) ==
    [FreshField EXCEPT !.type = r.type, !.number = r.number, !.value = r.value]

\* PB_read_field faults inside fread: the call does not return
ReadMessageFaults(r) ==
    /\ heap' = Append(heap, FieldNode(r))
    /\ loc' = [loc EXCEPT !.at = "fault"]
    /\ pc' = "crashed"
    /\ UNCHANGED <<ret, msgp>>

\* a failed PB_read_field: return -1, the node is left unlinked
ReadMessageFails(r) ==
    /\ heap' = Append(heap, FieldNode(r))
    /\ ReadMessageReturns(-1, [loc EXCEPT !.at = "PB_read_field", !.bytes = r.ret])
    /\ UNCHANGED msgp

\* the loop body after malloc has returned f and PB_read_field has returned r
ReadMessageField(f, r) ==
    /\ in' = r.s
    /\ IF r.fault
       THEN ReadMessageFaults(r)
       ELSE IF r.ret < 1
       THEN ReadMessageFails(r)
       ELSE /\ heap' = AppendField(Append(heap, FieldNode(r)), loc.head, f)
            /\ loc' = [loc EXCEPT !.bytes = r.ret,
                                 !.bytes_read = loc.bytes_read + r.ret]
            /\ UNCHANGED <<pc, ret, msgp>>

\* one turn of while (bytes_read < len)
ReadMessageIter ==
    /\ pc = "rm_loop"
    /\ SizeLess(loc.bytes_read, loc.len)
    /\ \/ /\ ReadMessageReturns(-1, [loc EXCEPT !.at = "malloc curr_field"])
          /\ UNCHANGED <<heap, in, msgp>>
       \/ ReadMessageField(NewNode(heap), PB_read_field(in))
    /\ UNCHANGED <<build, junk, alloc, call, out>>

\* the loop is left: *msgp = head; return 1
ReadMessageReturn ==
    /\ pc = "rm_loop"
    /\ ~SizeLess(loc.bytes_read, loc.len)
    /\ msgp' = loc.head
    /\ ReadMessageReturns(1, [loc EXCEPT !.at = "return"])
    /\ UNCHANGED <<build, junk, alloc, in, heap, call, out>>

-----------------------------------------------------------------------------
(* PB_read_message(in, len, &msg) on an input stream *)

Init ==
    /\ build = "wrap"
    /\ junk \in JunkValues
    /\ alloc \in AllocOutcomes
    /\ in \in {Fresh(b) : b \in Streams} \cup {Exhausted(b) : b \in Streams}
    /\ heap = <<>>
    /\ msgp = NoMsg
    /\ pc = "start"
    /\ call = None
    /\ loc = None
    /\ ret = 0
    /\ out = None

Next ==
    \/ ReadMessageCall
    \/ ReadMessageIter
    \/ ReadMessageReturn

Spec == Init /\ [][Next]_vars

-----------------------------------------------------------------------------
(* One call of a field-level decoder on an input stream *)

InitField ==
    /\ build \in Builds
    /\ junk \in JunkValues
    /\ alloc \in AllocOutcomes
    /\ in \in {Fresh(b) : b \in FieldStreams} \cup {Exhausted(b) : b \in FieldStreams}
    /\ heap = <<>>
    /\ msgp = NoMsg
    /\ pc = "start"
    /\ call = None
    /\ loc = None
    /\ ret = 0
    /\ out = None

NextField ==
    \/ CallReadVarint
    \/ CallReadTag
    \/ CallReadValue
    \/ CallReadField

SpecField == InitField /\ [][NextField]_vars

-----------------------------------------------------------------------------
(* zigzag_decode (osm.c) *)

INT64_MAX == 0..62

\* x + 1 modulo 2^64
AddOne(S) ==
    IF S = Bits64 THEN {}
    ELSE {i \in S : \E p \in Bits64 \ S : p < i}
         \cup {CHOOSE p \in Bits64 \ S : \A q \in Bits64 \ S : p <= q}

\* -x modulo 2^64 (two's complement)
Negate(S) == AddOne(Bits64 \ S)

\* x / 2 on an int64_t: C division truncates toward zero
DivTwo(S) ==
    IF 63 \in S THEN Negate(ShiftRight(Negate(S), 1)) ELSE ShiftRight(S, 1)

\* n % 2 == 0 on an int64_t
IsEven(S) == 0 \notin S

\* n + 1 overflows for n = INT64_MAX alone: undefined behaviour
ZigzagTraps(n) == ~IsEven(n) /\ n = INT64_MAX /\ build = "strict"

\* if (n%2 == 0) return (n/2); return -(n+1)/2;
zigzag_decode(n) ==
    IF IsEven(n) THEN DivTwo(n) ELSE DivTwo(Negate(AddOne(n)))

-----------------------------------------------------------------------------
(* One call of zigzag_decode on the 64 bits of a varint field *)

\* sample patterns: every choice of the three low and the three high bits,
\* with the bits between them all clear or all set
ZigzagInputs ==
    {lo \cup mid \cup hi :
        lo \in SUBSET {0, 1, 2}, mid \in {{}, 3..60}, hi \in SUBSET {61, 62, 63}}

CallZigzag ==
    /\ pc = "start"
    /\ \E n \in ZigzagInputs :
         /\ call' = [op |-> "zigzag_decode", n |-> n]
         /\ out' = [trap |-> ZigzagTraps(n)]
         /\ ret' = IF ZigzagTraps(n) THEN {} ELSE zigzag_decode(n)
    /\ pc' = "done"
    /\ UNCHANGED <<build, junk, alloc, in, heap, msgp, loc>>

InitZigzag ==
    /\ build \in Builds
    /\ junk = {}
    /\ alloc = "buffer"
    /\ in = Fresh(<<>>)
    /\ heap = <<>>
    /\ msgp = NoMsg
    /\ pc = "start"
    /\ call = None
    /\ loc = None
    /\ ret = 0
    /\ out = None

NextZigzag == CallZigzag

SpecZigzag == InitZigzag /\ [][NextZigzag]_vars

-----------------------------------------------------------------------------
(* Messages: circular lists of fields around a sentinel *)

\* sample fields as PB_read_field leaves them: number, type, value
FieldSamples == <<
    [number |-> 1, type |-> VARINT_TYPE, value |-> ValueI64(NatToBits(1))],
    [number |-> 1, type |-> LEN_TYPE,
     value |-> ValueBytes(<<1, 172, 2, 255, 255, 3>>, 6)],
    [number |-> 2, type |-> VARINT_TYPE, value |-> ValueI64(NatToBits(5))],
    [number |-> 1, type |-> LEN_TYPE,
     value |-> ValueBytes(<<1, 0, 0, 0, 2, 0, 0, 0>>, 8)],
    [number |-> 1, type |-> LEN_TYPE, value |-> ValueBytes(<<5, 128>>, 2)],
    [number |-> 2, type |-> LEN_TYPE, value |-> ValueBytes(<<7>>, 1)],
    [number |-> 1, type |-> I32_TYPE, value |-> ValueI32(NatToBits(9))]
>>

RECURSIVE BuildMessage(_, _, _)
\* the heap after the fields fs have been appended to the message head, the
\* way the loop of PB_read_message appends them
BuildMessage(h, head, fs) ==
    IF fs = <<>> THEN h
    ELSE BuildMessage(AppendField(Append(h, FieldNode(Head(fs))), head,
                                  NewNode(h)),
                      head, Tail(fs))

\* the messages of at most MaxFields sample fields; the sentinel is node 1
Messages ==
    {BuildMessage(<<SentinelAt(1)>>, 1, [k \in DOMAIN ix |-> FieldSamples[ix[k]]]) :
        ix \in UNION {[1..m -> 1..Len(FieldSamples)] : m \in 0..MaxFields}}

-----------------------------------------------------------------------------
(* PB_next_field and PB_get_field *)

\* (dir == FORWARD_DIR) ? a->next : a->prev
Advance(h, a, dir) == IF dir = FORWARD_DIR THEN h[a].next ELSE h[a].prev

\* a faulty variant: a number match of another type is skipped and the scan goes on
NextFieldAtSkipping(h, curr, fnum, type) ==
    IF h[curr].type = SENTINEL_TYPE THEN [do |-> "return", result |-> NULL]
    ELSE IF (fnum = ANY_FIELD \/ h[curr].number = fnum)
            /\ (type = ANY_TYPE \/ h[curr].type = type)
    THEN [do |-> "return", result |-> curr]
    ELSE [do |-> "advance", result |-> NULL]

\* what the loop does at node curr: "return" with a result, or "advance"
NextFieldAt(h, curr, fnum, type) ==
    IF h[curr].type = SENTINEL_TYPE THEN [do |-> "return", result |-> NULL]
    ELSE IF fnum = ANY_FIELD \/ h[curr].number = fnum
    THEN IF type = ANY_TYPE \/ h[curr].type = type
         THEN [do |-> "return", result |-> curr]
         ELSE [do |-> "return", result |-> NULL]
    ELSE [do |-> "advance", result |-> NULL]

\* PB_Field *curr = (dir == FORWARD_DIR) ? prev->next : prev->prev
NextFieldEnter(op, prev, fnum, type, dir) ==
    /\ pc = "start"
    /\ call' = [op |-> op, prev |-> prev, fnum |-> fnum, type |-> type,
                dir |-> dir, heap0 |-> heap]
    /\ loc' = [curr |-> Advance(heap, prev, dir), seen |-> <<>>]
    /\ pc' = "nf_loop"
    /\ UNCHANGED <<build, junk, alloc, in, heap, msgp, ret, out>>

LookupNumbers == {1, 2, 3, ANY_FIELD}
LookupTypes == {VARINT_TYPE, LEN_TYPE, I32_TYPE, ANY_TYPE}

NextFieldCall ==
    \E prev \in 1..Len(heap), fnum \in LookupNumbers, type \in LookupTypes,
       dir \in {FORWARD_DIR, BACKWARD_DIR} :
        NextFieldEnter("PB_next_field", prev, fnum, type, dir)

\* a faulty variant: the lookup runs forward from the head, so the first field wins
GetFieldCallForward ==
    \E fnum \in LookupNumbers, type \in LookupTypes :
        NextFieldEnter("PB_get_field", msgp, fnum, type, FORWARD_DIR)

\* return PB_next_field(msg, fnum, type, BACKWARD_DIR)
GetFieldCall ==
    \E fnum \in LookupNumbers, type \in LookupTypes :
        NextFieldEnter("PB_get_field", msgp, fnum, type, BACKWARD_DIR)

\* one test of while (curr->type != SENTINEL_TYPE) and one turn of the loop;
\* seen lists the nodes the loop has read
NextFieldDoes(a) ==
    /\ loc' = [curr |-> IF a.do = "advance"
                        THEN Advance(heap, loc.curr, call.dir) ELSE loc.curr,
               seen |-> Append(loc.seen, loc.curr)]
    /\ pc' = IF a.do = "return" THEN "done" ELSE "nf_loop"
    /\ ret' = a.result

NextFieldStep ==
    /\ pc = "nf_loop"
    /\ NextFieldDoes(NextFieldAt(heap, loc.curr, call.fnum, call.type))
    /\ UNCHANGED <<build, junk, alloc, in, heap, msgp, call, out>>

-----------------------------------------------------------------------------
(* PB_expand_packed_fields *)

ExpandNumbers == {1, 2}
ExpandTypes == {VARINT_TYPE, I64_TYPE, I32_TYPE}

\* PB_Field *curr = msg->next
ExpandCall ==
    /\ pc = "start"
    /\ \E fnum \in ExpandNumbers, type \in ExpandTypes :
         call' = [op |-> "PB_expand_packed_fields", msg |-> msgp,
                  fnum |-> fnum, type |-> type, heap0 |-> heap]
    /\ loc' = [curr |-> heap[msgp].next, size |-> 0, stream |-> Fresh(<<>>),
               at |-> "outer"]
    /\ pc' = "ex_outer"
    /\ UNCHANGED <<build, junk, alloc, in, heap, msgp, ret, out>>

\* return from PB_expand_packed_fields with value r
ExpandReturns(r) ==
    /\ ret' = r
    /\ pc' = "done"

\* the test of the outer while and the two ifs of its body, up to the inner
\* loop; a field with another number leaves curr where it is
ExpandOuter ==
    /\ pc = "ex_outer"
    /\ \/ /\ heap[loc.curr].type = SENTINEL_TYPE
          /\ ExpandReturns(1)
          /\ loc' = [loc EXCEPT !.at = "return"]
       \/ /\ heap[loc.curr].type # SENTINEL_TYPE
          /\ heap[loc.curr].number # call.fnum
          /\ UNCHANGED <<loc, pc, ret>>
       \/ /\ heap[loc.curr].type # SENTINEL_TYPE
          /\ heap[loc.curr].number = call.fnum
          /\ heap[loc.curr].type # LEN_TYPE
          /\ loc' = [loc EXCEPT !.curr = heap[loc.curr].next]
          /\ UNCHANGED <<pc, ret>>
       \/ /\ heap[loc.curr].type # SENTINEL_TYPE
          /\ heap[loc.curr].number = call.fnum
          /\ heap[loc.curr].type = LEN_TYPE
          /\ \/ /\ ExpandReturns(-1)
                /\ loc' = [loc EXCEPT !.at = "fmemopen"]
             \/ /\ loc' = [loc EXCEPT
                             !.size = heap[loc.curr].value.bytes.size,
                             !.stream = Fresh(heap[loc.curr].value.bytes.buf),
                             !.at = "inner"]
                /\ pc' = "ex_inner"
                /\ UNCHANGED ret
    /\ UNCHANGED <<build, junk, alloc, in, heap, msgp, call, out>>

\* the node new_field after PB_read_value has returned r
ExpandedNode(r) ==
    [FreshField EXCEPT !.number = call.fnum, !.type = call.type,
                       !.value = r.value]

\* a faulty variant: new_field is linked in right after the sentinel, at the front
ExpandLinkFront(h, f) ==
    [h EXCEPT ![f].prev = call.msg,
              ![f].next = h[call.msg].next,
              ![h[call.msg].next].prev = f,
              ![call.msg].next = f]

\* where the inner loop links new_field in: before the sentinel msg
ExpandLink(h, f) == AppendField(h, call.msg, f)

\* The inner loop body after malloc has returned f and PB_read_value has
\* returned r.  bytes_read is a size_t, so the test bytes_read < 0 never holds
\* and an error return of -1 adds 1 to size.
ExpandValue(f, r) ==
    /\ heap' = IF r.fault THEN Append(heap, ExpandedNode(r))
               ELSE ExpandLink(Append(heap, ExpandedNode(r)), f)
    /\ loc' = [loc EXCEPT !.size = loc.size - r.ret, !.stream = r.s]
    /\ pc' = IF r.fault THEN "crashed" ELSE pc
    /\ UNCHANGED ret

\* one test of while (size > 0) and one turn of the inner loop, or the
\* fclose and curr = curr->next that follow it
ExpandInner ==
    /\ pc = "ex_inner"
    /\ \/ /\ loc.size # 0
          /\ ExpandReturns(-1)
          /\ loc' = [loc EXCEPT !.at = "malloc new_field"]
          /\ UNCHANGED heap
       \/ /\ loc.size # 0
          /\ Len(heap) < MaxNodes
          /\ ExpandValue(NewNode(heap), PB_read_value(loc.stream, call.type))
       \/ /\ loc.size = 0
          /\ loc' = [loc EXCEPT !.curr = heap[loc.curr].next, !.at = "outer"]
          /\ pc' = "ex_outer"
          /\ UNCHANGED <<heap, ret>>
    /\ UNCHANGED <<build, junk, alloc, in, msgp, call, out>>

-----------------------------------------------------------------------------
(* One lookup or one expansion on a message *)

InitMsg ==
    /\ build = "wrap"
    /\ junk = {}
    /\ alloc = "buffer"
    /\ in = Fresh(<<>>)
    /\ heap \in Messages
    /\ msgp = 1
    /\ pc = "start"
    /\ call = None
    /\ loc = None
    /\ ret = 0
    /\ out = None

NextMsg ==
    \/ NextFieldCall
    \/ GetFieldCall
    \/ NextFieldStep
    \/ ExpandCall
    \/ ExpandOuter
    \/ ExpandInner

SpecMsg == InitMsg /\ [][NextMsg]_vars

\* the program is one thread that takes its next step whenever it has one
SpecMsgFair == SpecMsg /\ WF_vars(NextMsg)

-----------------------------------------------------------------------------
(* PB_read_message on an input stream, then PB_expand_packed_fields on the *)
(* message it returned                                                     *)

\* PB_Field *curr = msg->next, for the message that PB_read_message assigned
ExpandDecoded ==
    /\ pc = "done"
    /\ call.op = "PB_read_message"
    /\ ret = 1
    /\ \E fnum \in ExpandNumbers, type \in ExpandTypes :
         call' = [op |-> "PB_expand_packed_fields", msg |-> msgp,
                  fnum |-> fnum, type |-> type, heap0 |-> heap,
                  s0 |-> call.s0]
    /\ loc' = [curr |-> heap[msgp].next, size |-> 0, stream |-> Fresh(<<>>),
               at |-> "outer"]
    /\ pc' = "ex_outer"
    /\ ret' = 0
    /\ UNCHANGED <<build, junk, alloc, in, heap, msgp, out>>

NextList ==
    \/ Next
    \/ ExpandDecoded
    \/ ExpandOuter
    \/ ExpandInner

SpecList == Init /\ [][NextList]_vars

-----------------------------------------------------------------------------
(* OSM_read_Map *)

\* the address of the OSM_Map that malloc returned
MapAddr == NULL + 1

RECURSIVE PB_next_field(_, _, _, _, _)
\* the loop of PB_next_field at node curr, once the test of curr has said d
NextFieldFrom(h, curr, fnum, type, dir, d) ==
    IF d.do = "return" THEN d.result
    ELSE PB_next_field(h, curr, fnum, type, dir)

\* PB_next_field(prev, fnum, type, dir) on the heap h
PB_next_field(h, prev, fnum, type, dir) ==
    NextFieldFrom(h, Advance(h, prev, dir), fnum, type, dir,
                  NextFieldAt(h, Advance(h, prev, dir), fnum, type))

\* PB_get_field(msg, fnum, type) on the heap h
PB_get_field(h, msg, fnum, type) ==
    PB_next_field(h, msg, fnum, type, BACKWARD_DIR)

\* "OSMHeader" and "OSMData", without the terminating NUL
OSMHeaderName == <<79, 83, 77, 72, 101, 97, 100, 101, 114>>
OSMDataName == <<79, 83, 77, 68, 97, 116, 97>>

\* (b[0] << 24) | (b[1] << 16) | (b[2] << 8) | b[3], an int, converted to
\* size_t: with b[0] >= 128 the int is negative and the size_t is above 2^63
BigEndian(b) ==
    IF b[1] < 128
    THEN ((b[1] * 256 + b[2]) * 256 + b[3]) * 256 + b[4]
    ELSE (((b[1] - 256) * 256 + b[2]) * 256 + b[3]) * 256 + b[4]

\* The outcomes of strcmp(buf, "OSMHeader") == 0 on the size bytes of a LEN
\* value, which carry no terminating NUL: a comparison that is not decided
\* within the buffer reads past its end, which is undefined behaviour
StrcmpOSMHeader(buf) ==
    IF \E k \in 1..Len(buf) : k <= 9 /\ buf[k] # OSMHeaderName[k]
    THEN {FALSE}
    ELSE IF Len(buf) >= 10 THEN {buf[10] = 0}
    ELSE {TRUE, FALSE}

\* the bounding box of the map as malloc returns it: nothing assigned
NoBBox ==
    [c \in {"min_lon", "max_lon", "min_lat", "max_lat"} |->
        [set |-> FALSE, val |-> {}]]

\* if (f) map->bbox.c = zigzag_decode(f->value.i64) / 1e9; val holds the
\* dividend
AssignCoord(bbox, c, h, f) ==
    IF f = NULL THEN bbox
    ELSE [bbox EXCEPT ![c] = [set |-> TRUE, val |-> zigzag_decode(h[f].value.i64)]]

\* the four lookups and the four assignments of the OSMHeader branch
AssignBBox(bbox, h, msg) ==
    AssignCoord(
      AssignCoord(
        AssignCoord(
          AssignCoord(bbox, "min_lon", h, PB_get_field(h, msg, 1, VARINT_TYPE)),
          "max_lon", h, PB_get_field(h, msg, 2, VARINT_TYPE)),
        "min_lat", h, PB_get_field(h, msg, 3, VARINT_TYPE)),
      "max_lat", h, PB_get_field(h, msg, 4, VARINT_TYPE))

\* return from OSM_read_Map with value r
MapReturns(r) ==
    /\ ret' = r
    /\ pc' = "map_done"

\* entry: the allocation of the map
MapCall ==
    /\ pc = "start"
    /\ call' = [op |-> "OSM_read_Map", s0 |-> in]
    /\ \/ /\ MapReturns(NULL)
          /\ out' = [bbox |-> NoBBox, prefixes |-> <<>>, got |-> 0,
                     at |-> "malloc map"]
       \/ /\ out' = [bbox |-> NoBBox, prefixes |-> <<>>, got |-> 0,
                     at |-> "loop"]
          /\ pc' = "map_loop"
          /\ UNCHANGED ret
    /\ UNCHANGED <<build, junk, alloc, in, heap, msgp, loc>>

\* PB_read_message(in, len, &msg) is entered after the length prefix r
MapEnterMessage(r) ==
    IF feof(r.s)
    THEN MapReturns(NULL) /\ UNCHANGED <<heap, loc>>
    ELSE \/ /\ MapReturns(NULL)
            /\ UNCHANGED <<heap, loc>>
         \/ /\ heap' = Append(heap, SentinelAt(NewNode(heap)))
            /\ loc' = [at |-> "loop", head |-> NewNode(heap),
                       bytes_read |-> 0, len |-> BigEndian(r.bytes),
                       bytes |-> 0]
            /\ pc' = "rm_loop"
            /\ UNCHANGED ret

\* the test of while (fread(buffer, 1, 4, in) == 4), r being what fread
\* returned, and the call of PB_read_message
MapFrame(r) ==
    /\ in' = r.s
    /\ out' = [out EXCEPT !.prefixes = Append(out.prefixes, in.pos),
                          !.got = r.count]
    /\ IF r.count # 4
       THEN MapReturns(MapAddr) /\ UNCHANGED <<heap, loc>>
       ELSE MapEnterMessage(r)

MapReadLength ==
    /\ pc = "map_loop"
    /\ MapFrame(fread(in, 4))
    /\ UNCHANGED <<build, junk, alloc, msgp, call>>

\* after PB_read_message has returned: the test of its result, the lookup of
\* the type string and the OSMHeader branch
MapAfterMessage ==
    /\ pc = "done"
    /\ call.op = "OSM_read_Map"
    /\ \/ /\ ret # 1
          /\ MapReturns(NULL)
          /\ UNCHANGED out
       \/ /\ ret = 1
          /\ PB_get_field(heap, msgp, 1, LEN_TYPE) = NULL
          /\ pc' = "map_loop"
          /\ UNCHANGED <<out, ret>>
       \/ /\ ret = 1
          /\ PB_get_field(heap, msgp, 1, LEN_TYPE) # NULL
          /\ \E eq \in StrcmpOSMHeader(
                    heap[PB_get_field(heap, msgp, 1, LEN_TYPE)].value.bytes.buf) :
               out' = IF eq
                      THEN [out EXCEPT !.bbox = AssignBBox(out.bbox, heap, msgp)]
                      ELSE out
          /\ pc' = "map_loop"
          /\ UNCHANGED ret
    /\ UNCHANGED <<build, junk, alloc, in, heap, msgp, call, loc>>

\* the four bounding box fields, numbers 1..4, zig-zag encoded:
\* -1800000000, 1800000000, -900000000, 900000000
BBoxFields ==
    <<8, 255, 199, 206, 180, 13, 16, 128, 200, 206, 180, 13,
      24, 255, 163, 167, 218, 6, 32, 128, 164, 167, 218, 6>>

\* records of a PBF stream: the BlobHeader message and the Blob after it
Records == <<
    [header |-> <<10, 9>> \o OSMHeaderName \o <<24, 2>>, blob |-> <<8, 1>>],
    [header |-> <<10, 7>> \o OSMDataName \o <<24, 0>>, blob |-> <<>>],
    [header |-> <<10, 9>> \o OSMHeaderName \o <<24, 4>>,
     blob |-> <<0, 0, 0, 0>>],
    [header |-> <<10, 10>> \o OSMHeaderName \o <<0>> \o BBoxFields,
     blob |-> <<>>],
    [header |-> BBoxFields \o <<10, 10>> \o OSMHeaderName \o <<0>>,
     blob |-> <<>>],
    [header |-> BBoxFields \o <<10, 9>> \o OSMHeaderName, blob |-> <<>>],
    [header |-> <<11>>, blob |-> <<>>]
>>

\* the bytes of a record: the length of the header in four bytes, big-endian,
\* the header, the blob
RecordBytes(rec) == <<0, 0, 0, Len(rec.header)>> \o rec.header \o rec.blob

\* what an input may end with after its whole records
Tails == {<<>>, <<0>>, <<0, 0, 0>>, <<0, 0, 0, 5, 8>>}

\* the sequences of at most MaxFrames records
RecordLists == UNION {[1..m -> 1..Len(Records)] : m \in 0..MaxFrames}

MapStream(ix, tail) ==
    Flatten([k \in DOMAIN ix |-> RecordBytes(Records[ix[k]])]) \o tail

MapStreams == {MapStream(ix, tail) : ix \in RecordLists, tail \in Tails}

InitMap ==
    /\ build = "wrap"
    /\ junk \in JunkValues
    /\ alloc \in AllocOutcomes
    /\ in \in {Fresh(b) : b \in MapStreams}
    /\ heap = <<>>
    /\ msgp = NoMsg
    /\ pc = "start"
    /\ call = None
    /\ loc = None
    /\ ret = 0
    /\ out = None

NextMap ==
    \/ MapCall
    \/ MapReadLength
    \/ ReadMessageIter
    \/ ReadMessageReturn
    \/ MapAfterMessage

SpecMap == InitMap /\ [][NextMap]_vars

-----------------------------------------------------------------------------
(* PB_inflate_embedded_message and PB_read_embedded_message *)

\* what the inflated data may be, whole or cut short
InflateOutputs == {<<>>, <<8, 1>>, <<8, 1, 10, 1, 5>>, <<8>>, <<11>>}

\* zlib_inflate(input, output): whether the inflation succeeded, and the
\* bytes it wrote to output before it returned
ZlibOutcomes == [ok : BOOLEAN, output : InflateOutputs]

\* the compressed buffers handed in; their content is opaque to the caller
CompressedBuffers == {<<>>, <<120, 156, 1>>}

\* return from PB_inflate_embedded_message with value r
InflateReturns(r) ==
    /\ ret' = r
    /\ pc' = "done"
    /\ UNCHANGED <<in, heap, loc>>

\* PB_read_embedded_message(outbuf, outlen, msgp) on the bytes that the
\* memory stream has collected; outbuf is not NULL after fclose(output)
ReadEmbedded(output) ==
    IF Len(output) = 0
    THEN InflateReturns(0)
    ELSE \/ InflateReturns(-1)
         \/ /\ in' = Fresh(output)
            /\ heap' = Append(heap, SentinelAt(NewNode(heap)))
            /\ loc' = [at |-> "loop", head |-> NewNode(heap),
                       bytes_read |-> 0, len |-> Len(output), bytes |-> 0]
            /\ pc' = "rm_loop"
            /\ UNCHANGED ret

\* PB_inflate_embedded_message(buf, len, msgp), up to the loop of the
\* PB_read_message that PB_read_embedded_message calls; a failure of
\* fmemopen, open_memstream or malloc returns -1
InflateCall ==
    /\ pc = "start"
    /\ \/ /\ call' = [op |-> "PB_inflate_embedded_message", buf |-> NULL,
                      inflated |-> FALSE, msgp0 |-> msgp]
          /\ InflateReturns(-1)
       \/ /\ call' = [op |-> "PB_inflate_embedded_message", buf |-> <<>>,
                      inflated |-> FALSE, msgp0 |-> msgp]
          /\ InflateReturns(0)
       \/ \E buf \in CompressedBuffers \ {<<>>} :
            /\ call' = [op |-> "PB_inflate_embedded_message", buf |-> buf,
                        inflated |-> FALSE, msgp0 |-> msgp]
            /\ InflateReturns(-1)
       \/ \E buf \in CompressedBuffers \ {<<>>}, z \in ZlibOutcomes :
            /\ call' = [op |-> "PB_inflate_embedded_message", buf |-> buf,
                        inflated |-> TRUE, z |-> z, msgp0 |-> msgp]
            /\ ReadEmbedded(z.output)
    /\ UNCHANGED <<build, junk, alloc, msgp, out>>

InitInflate ==
    /\ build = "wrap"
    /\ junk \in JunkValues
    /\ alloc \in AllocOutcomes
    /\ in = Fresh(<<>>)
    /\ heap = <<>>
    /\ msgp = NoMsg
    /\ pc = "start"
    /\ call = None
    /\ loc = None
    /\ ret = 0
    /\ out = None

NextInflate ==
    \/ InflateCall
    \/ ReadMessageIter
    \/ ReadMessageReturn

SpecInflate == InitInflate /\ [][NextInflate]_vars

-----------------------------------------------------------------------------
(* What the claims are stated in: the fields of a message in the order they *)
(* were appended, and the standard encodings of values                     *)

\* the largest number of values a packed buffer is matched against
MaxPacked == 3

Max(S) == CHOOSE a \in S : \A b \in S : b <= a
Min(S) == CHOOSE a \in S : \A b \in S : a <= b

RECURSIVE ForwardList(_, _)
\* the nodes reached from node a by next pointers, up to the sentinel
ForwardList(h, a) ==
    IF h[a].type = SENTINEL_TYPE THEN <<>>
    ELSE <<a>> \o ForwardList(h, h[a].next)

\* the fields of message head, first to last
FieldsOf(h, head) == ForwardList(h, h[head].next)

\* the fields numbered fnum of a message whose fields are nodes 2, 3, ...
Occurrences(h, fnum) == {a \in 2..Len(h) : h[a].number = fnum}

\* the nodes a traversal from prev meets before the sentinel 1, in order,
\* in a message whose fields were appended as nodes 2, 3, ...
TraversalOrder(h, prev, dir) ==
    IF dir = FORWARD_DIR THEN [k \in 1..(Len(h) - prev) |-> prev + k]
    ELSE IF prev = 1 THEN [k \in 1..(Len(h) - 1) |-> Len(h) + 1 - k]
    ELSE [k \in 1..(prev - 2) |-> prev - k]

\* the places of the traversal order whose field has number fnum
Matches(h, ord, fnum) ==
    {k \in DOMAIN ord : fnum = ANY_FIELD \/ h[ord[k]].number = fnum}

TypeFits(h, a, type) == type = ANY_TYPE \/ h[a].type = type

\* the first number match if its type fits, NULL otherwise
FirstMatch(h, ord, fnum, type) ==
    IF Matches(h, ord, fnum) = {} THEN NULL
    ELSE IF TypeFits(h, ord[Min(Matches(h, ord, fnum))], type)
    THEN ord[Min(Matches(h, ord, fnum))]
    ELSE NULL

RECURSIVE EncodeVarint(_)
\* the base-128 encoding of a natural number
EncodeVarint(n) ==
    IF n < 128 THEN <<n>> ELSE <<128 + (n % 128)>> \o EncodeVarint(n \div 128)

\* the little-endian encoding of a natural number in w bytes
EncodeFixed(n, w) == [k \in 1..w |-> (n \div (256^(k - 1))) % 256]

Encode(n, type) ==
    IF type = VARINT_TYPE THEN EncodeVarint(n)
    ELSE IF type = I64_TYPE THEN EncodeFixed(n, 4) \o <<0, 0, 0, 0>>
    ELSE EncodeFixed(n, 4)

\* the value member a decoded field of the type holds for the number n
Decoded(n, type) ==
    IF type = I32_TYPE THEN ValueI32(NatToBits(n)) ELSE ValueI64(NatToBits(n))

PackedValues == {0, 1, 2, 5, 7, 300, 65535}

\* the lists of at most MaxPacked values
ValueLists == UNION {[1..m -> PackedValues] : m \in 0..MaxPacked}

\* the value lists a buffer is the packed encoding of (at most one)
Unpacked(buf, type) ==
    {vs \in ValueLists : Flatten([k \in DOMAIN vs |-> Encode(vs[k], type)]) = buf}

\* the length of the well-formed varint stream s starts with, 0 if there is none
VarintLength(s) ==
    IF \E m \in 1..Avail(s) : s.buf[s.pos + m] < 128
    THEN Min({m \in 1..Avail(s) : s.buf[s.pos + m] < 128})
    ELSE 0

\* the sum of (byte_i & 0x7F) * 2^(7i) over the first m bytes, modulo 2^64
VarintSum(s, m) ==
    UNION {{7 * (i - 1) + b : b \in ByteBits(s.buf[s.pos + i] % 128)} :
              i \in 1..m} \cap Bits64

\* (n >> 1) XOR -(n & 1)
ZigzagStandard(n) ==
    IF 0 \in n THEN Bits64 \ ShiftRight(n, 1) ELSE ShiftRight(n, 1)

-----------------------------------------------------------------------------
(* The claims *)

GetFieldDone == pc = "done" /\ call.op = "PB_get_field"
LookupDone == pc = "done" /\ call.op \in {"PB_get_field", "PB_next_field"}
ReadMessageDone == pc = "done" /\ call.op = "PB_read_message"
ExpandDone == pc = "done" /\ call.op = "PB_expand_packed_fields"

\* C1: PB_get_field returns the last field numbered fnum when that field's
\* type is the one asked for or ANY_TYPE is asked for, and NULL when no
\* field is numbered fnum.
C1_GetFieldLastWins ==
    (GetFieldDone /\ call.fnum # ANY_FIELD) =>
        IF Occurrences(heap, call.fnum) = {} THEN ret = NULL
        ELSE TypeFits(heap, Max(Occurrences(heap, call.fnum)), call.type)
                 => ret = Max(Occurrences(heap, call.fnum))

\* C1 witness: a number that occurs twice, with the last occurrence returned
C1_Witness ==
    /\ GetFieldDone
    /\ call.fnum # ANY_FIELD
    /\ call.type # ANY_TYPE
    /\ Cardinality(Occurrences(heap, call.fnum)) >= 2
    /\ ret = Max(Occurrences(heap, call.fnum))
    /\ heap[ret].value # heap[Min(Occurrences(heap, call.fnum))].value

\* C2: in either direction the lookup answers from the first field numbered
\* fnum in traversal order alone (NULL when its type is another one, whatever
\* follows), reads no node after the sentinel, and leaves the message as it
\* was.
C2_FirstMatchDecides ==
    /\ LookupDone =>
         /\ ret = FirstMatch(heap, TraversalOrder(heap, call.prev, call.dir),
                             call.fnum, call.type)
         /\ heap = call.heap0
    /\ (pc \in {"nf_loop", "done"}
        /\ call.op \in {"PB_get_field", "PB_next_field"}) =>
         /\ \A i \in 1..(Len(loc.seen) - 1) :
               heap[loc.seen[i]].type # SENTINEL_TYPE
         /\ \A i \in 1..Len(loc.seen) : loc.seen[i] \in 1..Len(heap)

\* C2 witness: the first number match has another type, the lookup returned
\* NULL, and a field further along has the number and the type asked for
C2_Witness ==
    /\ LookupDone
    /\ ret = NULL
    /\ call.type # ANY_TYPE
    /\ LET ord == TraversalOrder(heap, call.prev, call.dir)
           ms == Matches(heap, ord, call.fnum)
       IN  /\ ms # {}
           /\ heap[ord[Min(ms)]].type # call.type
           /\ \E k \in ms : k > Min(ms) /\ heap[ord[k]].type = call.type

\* C3: a successful PB_read_message has consumed exactly len bytes.
C3_ConsumesExactlyLen ==
    (ReadMessageDone /\ ret = 1) => in.pos - call.s0.pos = call.len

\* C4: any failure inside PB_read_message (an allocation that fails, a field
\* that does not decode, an input shorter than len, a tag with a wire type
\* that is not supported) makes the call return -1 and leaves *msgp as it
\* was; *msgp is assigned only by a call that returns success with every node
\* it allocated linked in.
C4_NoPartialMessage ==
    /\ call.op = "PB_read_message" => pc # "crashed"
    /\ ReadMessageDone =>
        /\ loc.at \in {"malloc head", "malloc curr_field", "PB_read_field"}
              => (ret = -1 /\ msgp = call.msgp0)
        /\ call.s0.eof => (ret = 0 /\ msgp = call.msgp0)
        /\ (~call.s0.eof /\ Avail(call.s0) < call.len)
              => (ret = -1 /\ msgp = call.msgp0)
        /\ (~call.s0.eof /\ call.len > 0 /\ Avail(call.s0) > 0
            /\ call.s0.buf[call.s0.pos + 1] < 128
            /\ call.s0.buf[call.s0.pos + 1] % 8 \in {3, 4, 6, 7})
              => (ret = -1 /\ msgp = call.msgp0)
        /\ msgp # call.msgp0 =>
              (ret = 1 /\ Len(FieldsOf(heap, msgp)) = Len(heap) - 1)

\* C5: PB_read_tag and PB_read_field return 0 exactly when the input ends
\* with no byte consumed by the call, and -1 when it ends after the call has
\* consumed a byte.
C5_CleanEndIsZero ==
    (pc = "done" /\ call.op \in {"PB_read_tag", "PB_read_field"}) =>
        /\ Avail(call.s0) = 0 => ret = 0
        /\ ret = 0 => (Avail(call.s0) = 0 /\ in.pos = call.s0.pos)
        /\ (in.eof /\ in.pos > call.s0.pos) => ret = -1

\* C6: PB_read_varint on a stream that starts with a well-formed varint of m
\* bytes returns m, consumes m bytes and stores the sum of the 7-bit groups
\* modulo 2^64; on a stream that ends before the last byte it returns -1.
C6_VarintValue ==
    (pc = "done" /\ call.op = "PB_read_varint") =>
        IF VarintLength(call.s0) > 0
        THEN /\ ret = VarintLength(call.s0)
             /\ in.pos = call.s0.pos + VarintLength(call.s0)
             /\ out.value = VarintSum(call.s0, VarintLength(call.s0))
        ELSE ret = -1

\* C7: PB_read_tag splits the tag into the wire type (low 3 bits) and the
\* field number (the bits above) and returns an error, not a count, for a
\* wire type that is none of VARINT, I64, LEN, I32.
C7_TagRejectsWireTypes ==
    (pc = "done" /\ call.op = "PB_read_tag" /\ VarintLength(call.s0) > 0
     /\ ~call.s0.eof) =>
        LET tag == VarintSum(call.s0, VarintLength(call.s0))
        IN  IF BitsToNat(tag \cap (0..2))
                   \in {VARINT_TYPE, I64_TYPE, LEN_TYPE, I32_TYPE}
            THEN /\ ret = VarintLength(call.s0)
                 /\ out.type = BitsToNat(tag \cap (0..2))
                 /\ out.number = ToInt32(ShiftRight(tag, 3))
            ELSE ret < 1

\* C8: zigzag_decode returns (n >> 1) XOR -(n & 1) for every 64-bit n, with
\* no overflow on the way.
C8_ZigzagExact ==
    (pc = "done" /\ call.op = "zigzag_decode") =>
        (~out.trap /\ ret = ZigzagStandard(call.n))

\* the packed fields of the message the expansion was called on
PackedNodes == {a \in 2..Len(call.heap0) : /\ call.heap0[a].number = call.fnum
                                           /\ call.heap0[a].type = LEN_TYPE}

\* the fields the expansion has added, in list order
AddedFields ==
    SelectSeq(FieldsOf(heap, call.msg), LAMBDA a : a > Len(call.heap0))

RECURSIVE ExpectedValues(_)
\* the values packed in the nodes of S, in the order of the nodes
ExpectedValues(S) ==
    IF S = {} THEN <<>>
    ELSE (CHOOSE vs \in Unpacked(call.heap0[Min(S)].value.bytes.buf, call.type)
              : TRUE) \o ExpectedValues(S \ {Min(S)})

\* C9: when PB_expand_packed_fields returns, each packed field numbered fnum
\* whose buffer is the concatenation of k well-formed values of the type has
\* yielded exactly k fields with number fnum, the type, and the k values in
\* buffer order.
C9_ExpandsInOrder ==
    (ExpandDone /\ ret = 1
     /\ \A a \in PackedNodes :
           Unpacked(call.heap0[a].value.bytes.buf, call.type) # {}) =>
        /\ Len(AddedFields) = Len(ExpectedValues(PackedNodes))
        /\ \A k \in 1..Len(AddedFields) :
              /\ heap[AddedFields[k]].number = call.fnum
              /\ heap[AddedFields[k]].type = call.type
              /\ heap[AddedFields[k]].value
                    = Decoded(ExpectedValues(PackedNodes)[k], call.type)

\* C9 witness: the packed VARINTs 1, 300, 65535 have become three fields
C9_Witness ==
    /\ ExpandDone
    /\ ret = 1
    /\ call.type = VARINT_TYPE
    /\ Cardinality(PackedNodes) = 1
    /\ Len(AddedFields) = 3
    /\ [k \in 1..3 |-> heap[AddedFields[k]].value]
          = <<Decoded(1, VARINT_TYPE), Decoded(300, VARINT_TYPE),
              Decoded(65535, VARINT_TYPE)>>

\* C10: after a successful expansion the packed field is gone from the
\* message, the expanded fields stand where it stood, and the other fields
\* keep their order.
C10_PackedFieldReplaced ==
    (ExpandDone /\ ret = 1 /\ PackedNodes # {}) =>
        /\ \A k \in 1..Len(FieldsOf(heap, call.msg)) :
              heap[FieldsOf(heap, call.msg)[k]].number = call.fnum
                  => heap[FieldsOf(heap, call.msg)[k]].type = call.type
        /\ SelectSeq(FieldsOf(heap, call.msg),
                     LAMBDA a : heap[a].number # call.fnum)
              = SelectSeq(FieldsOf(call.heap0, call.msg),
                          LAMBDA a : call.heap0[a].number # call.fnum)

\* the fields numbered fnum that the message held at the call and that are
\* not LEN_TYPE
UnpackedNodes == {a \in 2..Len(call.heap0) : /\ call.heap0[a].number = call.fnum
                                             /\ call.heap0[a].type # LEN_TYPE}

\* C11: PB_expand_packed_fields returns -1 when the message holds a field
\* numbered fnum whose wire type is not LEN_TYPE; it returns success only
\* when every field numbered fnum was LEN_TYPE.
C11_NotPackable ==
    ExpandDone => (IF UnpackedNodes # {} THEN ret = -1 ELSE ret \in {1, -1})

\* the number of whole values of the type at the front of a buffer
WholeValues(buf, type) ==
    IF type = VARINT_TYPE THEN Cardinality({k \in DOMAIN buf : buf[k] < 128})
    ELSE IF type = I64_TYPE THEN Len(buf) \div 8
    ELSE Len(buf) \div 4

\* the bytes of the buffer divide into whole values of the type
DividesEvenly(buf, type) ==
    IF type = VARINT_TYPE THEN buf = <<>> \/ buf[Len(buf)] < 128
    ELSE IF type = I64_TYPE THEN Len(buf) % 8 = 0
    ELSE Len(buf) % 4 = 0

RECURSIVE WholeValuesIn(_)
\* the number of whole values in the buffers of the nodes of S
WholeValuesIn(S) ==
    IF S = {} THEN 0
    ELSE WholeValues(call.heap0[Min(S)].value.bytes.buf, call.type)
             + WholeValuesIn(S \ {Min(S)})

\* C12: when a packed buffer does not divide into whole values of the type,
\* PB_expand_packed_fields returns -1, and at no time has it added more
\* fields than the buffers hold whole values.
C12_TruncatedPackedRun ==
    call.op = "PB_expand_packed_fields" =>
        /\ Len(heap) - Len(call.heap0) <= WholeValuesIn(PackedNodes)
        /\ (pc = "done"
            /\ \E a \in PackedNodes :
                  ~DividesEvenly(call.heap0[a].value.bytes.buf, call.type))
              => ret = -1

\* C17: every call of PB_expand_packed_fields returns (or, in this model,
\* meets the bound on the number of nodes).
C17_ExpandReturns ==
    (call.op = "PB_expand_packed_fields")
        ~> (pc \in {"done", "crashed"} \/ Len(heap) >= MaxNodes)

RECURSIVE Follow(_, _, _, _)
\* the nodes met from node a by next pointers before node head, at most fuel
Follow(h, a, head, fuel) ==
    IF a = head \/ fuel = 0 THEN <<>>
    ELSE <<a>> \o Follow(h, h[a].next, head, fuel - 1)

\* the fields of the message whose sentinel is node 1, by next pointers
Ring == Follow(heap, heap[1].next, 1, Len(heap))

\* the last node allocated was never linked in: PB_read_field failed on it
LastUnlinked ==
    \/ pc = "crashed"
    \/ pc = "done" /\ call.op = "PB_read_message" /\ loc.at = "PB_read_field"

\* the number of nodes that were linked in
LinkedCount == Len(heap) - 1 - (IF LastUnlinked THEN 1 ELSE 0)

RECURSIVE NthField(_, _)
\* what the k-th PB_read_field on the stream s delivers
NthField(s, k) ==
    IF k = 1 THEN PB_read_field(s) ELSE NthField(PB_read_field(s).s, k - 1)

\* the number of fields that PB_read_message has appended
DecodedCount ==
    IF call.op = "PB_read_message" THEN LinkedCount ELSE Len(call.heap0) - 1

\* C18: at every step of PB_read_message and of PB_expand_packed_fields the
\* list is circular and doubly linked with the one sentinel: next and prev
\* are inverse at every node, following next from the sentinel meets every
\* linked field once, in the order of linking, and comes back to it, and
\* the fields that PB_read_message appended are the fields of the input in
\* the order of their encodings.
C18_ListInvariant ==
    heap # <<>> =>
        /\ Ring = [k \in 1..LinkedCount |-> k + 1]
        /\ heap[1].type = SENTINEL_TYPE
        /\ \A n \in {1} \cup (2..(LinkedCount + 1)) :
              /\ heap[heap[n].next].prev = n
              /\ heap[heap[n].prev].next = n
              /\ n # 1 => heap[n].type # SENTINEL_TYPE
        /\ \A k \in 1..DecodedCount :
              /\ heap[k + 1].type = NthField(call.s0, k).type
              /\ heap[k + 1].number = NthField(call.s0, k).number
              /\ heap[k + 1].value = NthField(call.s0, k).value

\* C18 witness: a message of two decoded fields that an expansion has added
\* a field to
C18_Witness ==
    /\ pc = "done"
    /\ call.op = "PB_expand_packed_fields"
    /\ ret = 1
    /\ Len(call.heap0) >= 3
    /\ Len(Ring) > Len(call.heap0) - 1
    /\ heap[heap[1].prev].type = call.type

\* the offsets at which the records of an input start, and where they end
RecordStarts(ix) ==
    {Len(MapStream(SubSeq(ix, 1, j), <<>>)) : j \in 0..Len(ix)}

\* C13: OSM_read_Map reads every length prefix at the start of a record (or
\* where the records end): the header and the Blob of a record are consumed
\* before the next prefix is read.
C13_FramesInOrder ==
    call.op = "OSM_read_Map" =>
        \A ix \in RecordLists, tail \in Tails :
            MapStream(ix, tail) = call.s0.buf =>
                \A k \in DOMAIN out.prefixes :
                    out.prefixes[k] \in RecordStarts(ix)

\* C14: OSM_read_Map returns a map only when the input ended with no byte
\* read at a length prefix; it returns NULL when the input ends within a
\* length prefix and when a header message was not decoded.
C14_FailureIsFatal ==
    pc = "map_done" =>
        /\ ret # NULL => (out.at = "loop" /\ out.got = 0)
        /\ out.got \in 1..4 => ret = NULL

\* the inputs of one record whose header carries "OSMHeader" and the four
\* bounding box fields
BBoxStreams == {MapStream(<<k>>, <<>>) : k \in {4, 5, 6}}

\* the 64-bit pattern of the integer n of magnitude below 2^31
Int64Bits(n) == IF n >= 0 THEN NatToBits(n) ELSE Bits64 \ NatToBits(-n - 1)

\* C16: for a record whose header carries "OSMHeader" and the bounding box
\* fields of -1800000000, 1800000000, -900000000, 900000000, OSM_read_Map
\* returns a map whose four coordinates are assigned from those values.
C16_BBoxAssigned ==
    (pc = "map_done" /\ call.s0.buf \in BBoxStreams /\ out.at = "loop"
     /\ out.got = 0) =>
        /\ ret # NULL
        /\ \A c \in DOMAIN out.bbox : out.bbox[c].set
        /\ out.bbox["min_lon"].val = Int64Bits(-1800000000)
        /\ out.bbox["max_lon"].val = Int64Bits(1800000000)
        /\ out.bbox["min_lat"].val = Int64Bits(-900000000)
        /\ out.bbox["max_lat"].val = Int64Bits(900000000)

\* C15: when zlib_inflate fails, PB_inflate_embedded_message returns -1,
\* starts no message decoding on what was inflated and leaves *msgp as it
\* was.
C15_InflateFailureIsError ==
    (call.op = "PB_inflate_embedded_message" /\ call.inflated /\ ~call.z.ok) =>
        /\ heap = <<>>
        /\ msgp = call.msgp0
        /\ pc = "done" /\ ret = -1

=============================================================================
